---------------------------- MODULE Spec2Model ----------------------------
(***************************************************************************)
(* Render Manager Bot: the conversation handlers of bot.py and the remote  *)
(* client of render_api.py as a state machine.                             *)
(*                                                                         *)
(* Handlers are asyncio coroutines: the code between two awaits runs       *)
(* atomically, and a handler suspended in an await (a remote request or a  *)
(* message delivery) interleaves with every other handler.  A suspended    *)
(* handler is a record of the bag inflight; the record of the handler that *)
(* returned last is fin.                                                   *)
(*                                                                         *)
(* Texts are sequences of one-character strings, so that strip, split and  *)
(* splitlines are computed as Python computes them.                        *)
(***************************************************************************)
EXTENDS Integers, Sequences, FiniteSets, Bags, TLC

VARIABLES
    api_keys,   \* state["api_keys"]: user id -> api key          (bot.py:47-51)
    repos,      \* state["repos"]: service id -> repo mapping     (bot.py:47-51)
    pending,    \* state["_pending"]: user id -> pending entry    (bot.py:47-51)
    disk,       \* the content of STATE_FILE, as save_state wrote it last
    inflight,   \* bag of the handlers suspended in an await
    fin,        \* the handler that returned last (its inputs, calls, replies)
    applied     \* the remote service: service id -> the update it applied last

vars == <<api_keys, repos, pending, disk, inflight, fin, applied>>

-----------------------------------------------------------------------------
(* Bounds of the model *)

\* how many handlers of one user may be suspended in an await at the same time
MaxInFlight == 1
\* the most lines a reply to the environment flow holds (SpecEnv)
MaxLines == 2
\* the most owners GET /owners returns (SpecOwner)
MaxOwners == 2

Users == {"u1", "u2"}
Keys == {"k1"}

\* service ids the callback buttons carry and the remote service hands out
Sids == {<<"n">>, <<"s">>}

-----------------------------------------------------------------------------
(* Python values *)

\* an Optional[str]: None, or a str (a sequence of characters)
NoneV == [isNone |-> TRUE, s |-> <<>>]
Str(s) == [isNone |-> FALSE, s |-> s]
\* Python truthiness of an Optional[str]
Truthy(v) == ~v.isNone /\ v.s # <<>>

\* "main", the default branch (bot.py:494, 533, 615)
Main == <<"m", "a", "i", "n">>

IsSpace(c) == c \in {" ", "\n"}

RECURSIVE LStrip(_)
LStrip(s) == IF s = <<>> THEN s
             ELSE IF IsSpace(Head(s)) THEN LStrip(Tail(s)) ELSE s

RECURSIVE RStrip(_)
RStrip(s) == IF s = <<>> THEN s
             ELSE IF IsSpace(s[Len(s)]) THEN RStrip(SubSeq(s, 1, Len(s) - 1)) ELSE s

\* str.strip()
Strip(s) == RStrip(LStrip(s))

\* the least index of character c in s, 0 when c is not in s (str.find + 1)
Find(s, c) == IF \E i \in 1..Len(s) : s[i] = c
              THEN CHOOSE i \in 1..Len(s) : s[i] = c /\ \A j \in 1..(i-1) : s[j] # c
              ELSE 0

\* str.split(c): at least one part, every occurrence of c separates two parts
RECURSIVE Split(_, _)
Split(s, c) == LET i == Find(s, c)
               IN IF i = 0 THEN <<s>>
                  ELSE <<SubSeq(s, 1, i - 1)>> \o Split(SubSeq(s, i + 1, Len(s)), c)

\* str.splitlines(): like split on the newline, but no line for the empty
\* rest after a final newline, and no line at all for the empty string
RECURSIVE SplitLines(_)
SplitLines(s) == LET i == Find(s, "\n")
                 IN IF s = <<>> THEN <<>>
                    ELSE IF i = 0 THEN <<s>>
                    ELSE <<SubSeq(s, 1, i - 1)>> \o SplitLines(SubSeq(s, i + 1, Len(s)))

\* [p.strip() for p in txt.split("|")]
Parts(txt) == LET ps == Split(txt, "|") IN [i \in 1..Len(ps) |-> Strip(ps[i])]

\* parts[i] if len(parts) >= i and parts[i] else None   (i counted from 1)
PartOrNone(parts, i) == IF Len(parts) >= i /\ parts[i] # <<>> THEN Str(parts[i]) ELSE NoneV

\* parts[i] if len(parts) >= i and parts[i] else "main"
BranchOf(parts, i) == IF Len(parts) >= i /\ parts[i] # <<>> THEN parts[i] ELSE Main

-----------------------------------------------------------------------------
(* dicts: functions with a finite domain *)

EmptyDict == << >>
DictSet(d, k, v) == [x \in (DOMAIN d) \cup {k} |-> IF x = k THEN v ELSE d[x]]
DictDel(d, k) == [x \in (DOMAIN d) \ {k} |-> d[x]]
Has(d, k) == k \in DOMAIN d

-----------------------------------------------------------------------------
(* The state dict and its accessors (bot.py:43-86) *)

\* the in-memory state dict as one value
St == [api_keys |-> api_keys, repos |-> repos, pending |-> pending, disk |-> disk]

\* a pending entry is a dict with the keys type and service_type or service_id;
\* "none" / NoneV stand for a key the dict does not hold (dict.get gives None)
NoEntry == [type |-> "none", service_type |-> "none", service_id |-> NoneV]
CreateEntry(stype) == [type |-> "create", service_type |-> stype, service_id |-> NoneV]
FlowEntry(typ, sid) == [type |-> typ, service_type |-> "none", service_id |-> Str(sid)]

\* json.dump(state, f): the file holds all three dicts, _pending included
save_state(st) ==
    [st EXCEPT !.disk = [api_keys |-> st.api_keys, repos |-> st.repos, pending |-> st.pending]]

set_user_key(st, uid, key) ==
    save_state([st EXCEPT !.api_keys = DictSet(@, uid, key)])

\* None when the user has no key
get_user_key(st, uid) == IF Has(st.api_keys, uid) THEN st.api_keys[uid] ELSE "none"

\* a mutant of set_repo_mapping: the branch argument is ignored (its default is stored)
set_repo_mapping_default_branch(st, sid, repo, branch, start_command) ==
    save_state([st EXCEPT !.repos =
        DictSet(@, sid, [repo |-> repo, branch |-> Str(Main), startCommand |-> start_command])])

set_repo_mapping(st, sid, repo, branch, start_command) ==
    save_state([st EXCEPT !.repos =
        DictSet(@, sid, [repo |-> repo, branch |-> branch, startCommand |-> start_command])])

\* a mutant of set_pending: the new entry is merged into the old one (dict.update)
set_pending_merge(st, uid, entry) ==
    LET old == IF Has(st.pending, uid) THEN st.pending[uid] ELSE NoEntry
        new == [type |-> entry.type,
                service_type |-> IF entry.service_type = "none" THEN old.service_type
                                 ELSE entry.service_type,
                service_id |-> IF entry.service_id.isNone THEN old.service_id
                               ELSE entry.service_id]
    IN save_state([st EXCEPT !.pending = DictSet(@, uid, new)])

\* the entry replaces whatever the user had pending
set_pending(st, uid, entry) ==
    save_state([st EXCEPT !.pending = DictSet(@, uid, entry)])

\* a mutant of pending_of: an entry missing in memory is read from the state file
pending_of_stale(st, uid) ==
    IF Has(st.pending, uid) THEN st.pending[uid]
    ELSE IF Has(st.disk.pending, uid) THEN st.disk.pending[uid]
    ELSE NoEntry

\* what state["_pending"].pop(uid, None) returns
pending_of(st, uid) == IF Has(st.pending, uid) THEN st.pending[uid] ELSE NoEntry

\* a mutant of pop_pending: the entry is read and left in the dict
pop_pending_peek(st, uid) == st

\* the state after state["_pending"].pop(uid, None): no save_state here
pop_pending(st, uid) == [st EXCEPT !.pending = DictDel(@, uid)]

-----------------------------------------------------------------------------
(* Events and handler records *)

\* one inbound event: op is the callback action, the command or "text"
Ev(op, sid, stype, page, body, key) ==
    [op |-> op, sid |-> sid, stype |-> stype, page |-> page, body |-> body, key |-> key]
NoEv == Ev("none", <<>>, "none", 0, <<>>, "none")

\* a text on display: the characters first..last of the text it was made
\* from, behind the truncation notice if notice holds
Shown(notice, first, last) == [notice |-> notice, first |-> first, last |-> last]
NoShown == Shown(FALSE, 1, 0)

\* the log lines of a message: the lines first..last of the list the remote
\* service returned, none if last < first
Lines(first, last) == [first |-> first, last |-> last]
NoLines == Lines(1, 0)

\* the locals a suspended handler keeps across its awaits; shown is the log
\* text of its last message and lines the log lines that text is made of
NoLoc == [sid |-> <<>>, name |-> <<>>, repo |-> NoneV, branch |-> <<>>,
          start_cmd |-> NoneV, service_type |-> "none", owner_id |-> "none",
          shown |-> NoShown, lines |-> NoLines]

\* a handler: h names the coroutine, key is the api key it read when it started,
\* popped the pending entry it took from the user's slot (for a flow button of
\* on_cb: the entry its set_pending overwrote, which the code does not read
\* and the claims do), calls the remote requests it issued and replies the
\* messages it sent, both in order, texts the dynamic texts interpolated into
\* each message, as they stand in it, dump the credentials its messages show
\* as part of the dumped state
Handler(h, uid, ev) ==
    [h |-> h, uid |-> uid, ev |-> ev, pc |-> "start", key |-> "none",
     popped |-> NoEntry, loc |-> NoLoc, calls |-> <<>>, replies |-> <<>>,
     sends |-> <<>>, texts |-> <<>>, dump |-> EmptyDict]

Idle == [Handler("none", "none", NoEv) EXCEPT !.pc = "idle"]

\* one remote request: res is "sent" until the response arrives
\* and data the body of the response where the model looks into it
NoData == [isList |-> FALSE, items |-> <<>>]
\* and len the length of the log text the response is formatted to,
\* count the number of log lines the response holds,
\* text a text the body of the response holds (a field of the payload, or
\* the body of an error response)
Call(op, sid, body) ==
    [op |-> op, sid |-> sid, body |-> body, res |-> "sent", data |-> NoData, len |-> 0,
     count |-> 0, text |-> <<>>]

\* the outcomes of _request (render_api.py:55-67): a 2xx status, a 4xx status, a
\* 5xx status, or httpx.RequestError
Outcomes == {"2xx", "4xx", "5xx", "neterr"}

\* the outcomes with a 2xx status whose body is not JSON (data is resp.text)
\* and with httpx.InvalidURL, which is no httpx.RequestError
AllOutcomes == Outcomes \cup {"2xx_text", "badurl"}

\* ok of the (ok, data) pair _request returns
request_ok(outcome) == outcome \in {"2xx", "2xx_text"}

\* a mutant of request_data: a 5xx status is reported like a network failure
request_data_5xx_as_error(outcome) ==
    CASE outcome \in {"2xx", "2xx_text"} ->
            [keys |-> {}, status_code |-> "none",
             body |-> IF outcome = "2xx" THEN "json" ELSE "text"]
      [] outcome = "4xx" -> [keys |-> {"status_code", "body"}, status_code |-> outcome, body |-> "json"]
      [] outcome \in {"5xx", "neterr"} -> [keys |-> {"error"}, status_code |-> "none", body |-> "none"]

\* data of the (ok, data) pair _request returns (render_api.py:56-67): the
\* body itself for a 2xx, {"status_code", "body"} for any other status,
\* {"error"} for httpx.RequestError; keys is {} when data is the body
request_data(outcome) ==
    CASE outcome \in {"2xx", "2xx_text"} ->
            [keys |-> {}, status_code |-> "none",
             body |-> IF outcome = "2xx" THEN "json" ELSE "text"]
      [] outcome \in {"4xx", "5xx"} ->
            [keys |-> {"status_code", "body"}, status_code |-> outcome, body |-> "json"]
      [] outcome = "neterr" -> [keys |-> {"error"}, status_code |-> "none", body |-> "none"]

\* _request raises: only httpx.RequestError is caught (render_api.py:55-57)
request_raises(outcome) == outcome = "badurl"

\* the URL of a request cannot be built: a character of the path is not
\* printable (httpx.InvalidURL)
url_invalid(c) ==
    \/ \E i \in 1..Len(c.sid) : c.sid[i] = "\n"
    \/ c.op = "delete_env_var" /\ \E i \in 1..Len(c.body) : c.body[i] = "\n"

\* str.replace(c, t) for a character c
RECURSIVE Replace(_, _, _)
Replace(s, c, t) ==
    IF s = <<>> THEN <<>>
    ELSE (IF Head(s) = c THEN t ELSE <<Head(s)>>) \o Replace(Tail(s), c, t)

\* html_escape (bot.py:89-93), of an Optional[str]
html_escape(v) ==
    IF v.isNone THEN <<>>
    ELSE Replace(Replace(Replace(v.s, "&", <<"&", "a", "m", "p", ";">>),
                         "<", <<"&", "l", "t", ";">>),
                 ">", <<"&", "g", "t", ";">>)

\* str(None)
NoneText == <<"N", "o", "n", "e">>

\* the dynamic texts of the message tag that handler r is about to send, in
\* the order of the f-string, each as it stands in the message.  Every
\* message goes out with parse_mode HTML, the default of safe_edit and
\* safe_reply.  The service type of "Selected ..." is one of
\* VALID_SERVICE_TYPES and the labels of buttons are no message text.
message_parts(r, tag) ==
    LET c == IF r.calls = <<>> THEN Call("none", <<>>, <<>>) ELSE r.calls[Len(r.calls)]
        \* f"...\n{data}": the descriptor of a failed request holds the body
        \* as received; that of a network failure holds no remote text
        descriptor == IF c.res \in {"4xx", "5xx"} THEN <<c.text>> ELSE <<>>
    IN CASE tag \in {"invalid_key", "fetch_failed", "unexpected_format", "restart_failed",
                     "deploy_failed", "create_failed", "update_failed", "flow_failed"} ->
                IF tag = "unexpected_format" THEN <<c.text>> ELSE descriptor
         \* f"... Raw response: {raw}" (bot.py:512)
         [] tag = "no_owner" -> IF c.res = "neterr" THEN <<>> ELSE <<c.text>>
         \* f"<b>Service {sid}</b>\nRepo: <code>{html_escape(...)}</code>..." (bot.py:320)
         [] tag = "mapping_info" ->
                <<r.loc.sid, html_escape(r.loc.repo), html_escape(Str(r.loc.branch)),
                  html_escape(r.loc.start_cmd)>>
         [] tag = "rendered" ->
                CASE r.ev.op = "svc" -> <<html_escape(Str(c.text)), html_escape(Str(r.loc.sid))>>
                  [] r.ev.op = "list_apps" -> <<>>
                  [] OTHER -> <<html_escape(Str(c.text))>>
         [] tag = "deploy_ok" -> <<html_escape(Str(c.text))>>
         [] tag = "flow_ok" ->
                IF c.op = "delete_env_var" THEN <<html_escape(Str(c.body))>> ELSE <<>>
         \* f"...ID: <code>{html_escape(str(sid))}</code>\nURL: {html_escape(str(url))}"
         [] tag = "created" ->
                <<html_escape(Str(IF r.loc.sid = <<>> THEN NoneText ELSE r.loc.sid)),
                  html_escape(Str(c.text))>>
         [] OTHER -> <<>>

Reply(r, tag) == [r EXCEPT !.replies = Append(@, tag),
                           !.texts = Append(@, message_parts(r, tag))]
Request(r, c, pc) == [r EXCEPT !.calls = Append(@, c), !.pc = pc]
Respond(r, outcome) == [r EXCEPT !.calls[Len(r.calls)].res = outcome]
RespondLen(r, outcome, n) ==
    [r EXCEPT !.calls[Len(r.calls)].res = outcome, !.calls[Len(r.calls)].len = n]
RespondData(r, outcome, data) ==
    [r EXCEPT !.calls[Len(r.calls)].res = outcome, !.calls[Len(r.calls)].data = data]
\* one attempt to deliver a message: the method called and the parse mode it
\* is given; "default" is the client's own parse mode, used when the call
\* names none
Attempt(method, parse_mode) == [method |-> method, parse_mode |-> parse_mode]

\* what the transport answers to the first attempt (MessageNotModified, an
\* RPCError that names the entities or the parse mode, another RPCError, any
\* other exception) and to the second
FirstAnswers == {"ok", "not_modified", "format_error", "rpc_error", "exception"}
SecondAnswers == {"ok", "error"}

\* safe_edit (kind "edit") and safe_reply (kind "reply") (bot.py:96-129): the
\* attempts made for one message, given the answers a1 and a2 of the
\* transport; every exception is caught
safe_send(kind, a1, a2) ==
    LET first == Attempt(IF kind = "edit" THEN "edit_text" ELSE "reply_text", "html")
        again == a1 = "format_error"
    IN [kind |-> kind, first |-> a1, second |-> IF again THEN a2 ELSE "none",
        attempts |-> IF again THEN <<first, Attempt("reply_text", "default")>> ELSE <<first>>,
        raised |-> FALSE]

\* the handler returns: its locals are gone
Done(r) == [r EXCEPT !.pc = "done", !.loc = NoLoc]
\* an exception leaves the handler: it ends without another message
Raise(r) == [r EXCEPT !.pc = "raised", !.loc = NoLoc]

\* the result of one step of a handler: the handler and the state after it
Res(r, st) == [r |-> r, st |-> st]

\* how many handlers of user uid the bag b holds
InFlightOf(b, uid) ==
    LET hs == {r \in BagToSet(b) : r.uid = uid}
        RECURSIVE Sum(_)
        Sum(S) == IF S = {} THEN 0
                  ELSE LET r == CHOOSE x \in S : TRUE IN CopiesIn(r, b) + Sum(S \ {r})
    IN Sum(hs)

\* the remote service after the step: the response a handler resumed with
\* tells that its update request was applied, unless the step that applied
\* it came before (RemoteApplies)
applied_after(old, res) ==
    IF \E r \in old : /\ r.pc = "update_wait" /\ r.calls[Len(r.calls)].res = "sent"
                      /\ res.r.calls[Len(r.calls)].res \in {"2xx", "2xx_text"}
    THEN LET c == res.r.calls[Len(res.r.calls)] IN DictSet(applied, c.sid, c.body)
    ELSE applied

\* the step's effect on the variables, room telling whether one more handler
\* may be suspended beside the handlers rest: a handler that returned becomes
\* fin, one that awaits joins (or stays in) inflight
CommitIf(old, res, rest, room) ==
    /\ api_keys' = res.st.api_keys
    /\ repos' = res.st.repos
    /\ pending' = res.st.pending
    /\ disk' = res.st.disk
    /\ applied' = applied_after(old, res)
    /\ IF res.r.pc \in {"done", "raised"}
       THEN inflight' = rest /\ fin' = res.r
       ELSE /\ room
            /\ inflight' = rest (+) SetToBag({res.r})
            /\ fin' = fin

\* a mutant of Commit: one handler at a time is suspended, whoever its user is
Commit_one_at_a_time(old, res) ==
    LET rest == inflight (-) SetToBag(old)
    IN CommitIf(old, res, rest, BagCardinality(rest) < MaxInFlight)

\* a step of a handler: the handlers of one user do not keep those of
\* another from running
Commit(old, res) ==
    LET rest == inflight (-) SetToBag(old)
    IN CommitIf(old, res, rest, InFlightOf(rest, res.r.uid) < MaxInFlight)

-----------------------------------------------------------------------------
(* /login (bot.py:192-204) *)

\* first step: message.command has the key, the owners request is issued
login_start(uid, key) ==
    LET r == [Handler("cmd_login", uid, Ev("login", <<>>, "none", 0, <<>>, key))
                 EXCEPT !.key = key]
    IN Request(r, Call("owners", <<>>, <<>>), "login_wait")

\* a mutant of login_resume: the key is stored whatever the owners request answered
login_resume_unchecked(r, st, outcome) ==
    LET r1 == Respond(r, outcome)
    IN Res(Done(Reply(r1, IF request_ok(outcome) THEN "key_saved" ELSE "invalid_key")),
           set_user_key(st, r.uid, r.key))

\* the owners response: the key is stored only when ok
login_resume(r, st, outcome) ==
    LET r1 == Respond(r, outcome)
    IN IF ~request_ok(outcome)
       THEN Res(Done(Reply(r1, "invalid_key")), st)
       ELSE Res(Done(Reply(r1, "key_saved")), set_user_key(st, r.uid, r.key))

CmdLogin(uid, key) == Commit({}, Res(login_start(uid, key), St))

-----------------------------------------------------------------------------
(* The remote client (render_api.py) *)

VALID_SERVICE_TYPES ==
    {"static_site", "web_service", "private_service", "background_worker",
     "cron_job", "workflow"}

\* create_service: the types whose body carries repo and branch (render_api.py:125)
repo_types == {"web_service", "private_service", "background_worker", "workflow"}

\* the page-size ceiling of the remote service
LimitMax == 100
\* list_apps asks for 50 services, a log page has 50 lines, /logs asks for 200
ListLimit == 50
PageLimit == 50
LogsLimit == 200

Min(a, b) == IF a < b THEN a ELSE b

\* list_services: params of the request; no limit parameter when limit is 0
list_services_params(limit) ==
    IF limit # 0 THEN [hasLimit |-> TRUE, limit |-> Min(limit, LimitMax)]
    ELSE [hasLimit |-> FALSE, limit |-> 0]

\* get_service_logs: params of the request
get_service_logs_params(limit) == [tail |-> "true", limit |-> Min(limit, LimitMax)]

\* a mutant of restart_fallback: the deploy is triggered whatever /restart answered
restart_fallback_always(outcome) == TRUE

\* restart_service: whether trigger_deploy is called after the /restart response
restart_fallback(outcome) == ~request_ok(outcome)

-----------------------------------------------------------------------------
(* Callback queries: on_cb (bot.py:230-478) *)

CbOps == {"account", "list_apps", "create_root", "create_type", "repo_mappings",
          "repo_info", "svc", "svc_status", "svc_logs", "svc_restart", "svc_deploy",
          "svc_repo_set", "svc_env", "env_add", "env_del", "unknown"}

\* the callback actions that begin a flow with set_pending
FlowOps == {"create_type", "svc_repo_set", "env_add", "env_del"}

\* the request a callback issues first when the user has a key
cb_first_call(ev) ==
    CASE ev.op = "account" -> Call("owners", <<>>, <<>>)
      [] ev.op = "list_apps" -> Call("list_services", <<>>, list_services_params(ListLimit))
      [] ev.op \in {"svc", "svc_status"} -> Call("get_service", ev.sid, <<>>)
      [] ev.op = "svc_logs" ->
            Call("get_service_logs", ev.sid, get_service_logs_params(PageLimit * ev.page))
      [] ev.op = "svc_env" -> Call("list_env_vars", ev.sid, <<>>)

\* the longest log text shown untruncated, and the length of "(truncated)\n"
DisplayMax == 3900
NoticeLen == 12

\* a mutant of display_text: the head of the text is kept (text[:3900])
display_text_head(n) ==
    IF n > DisplayMax THEN Shown(TRUE, 1, DisplayMax) ELSE Shown(FALSE, 1, n)

\* if len(text) > 3900: text = text[-3900:]; text = "(truncated)\n" + text
\* (bot.py:397-399, 601-602), for a text of n characters
display_text(n) ==
    IF n > DisplayMax THEN Shown(TRUE, n - DisplayMax + 1, n) ELSE Shown(FALSE, 1, n)

Max(a, b) == IF a > b THEN a ELSE b

\* a bound of a Python slice of a list of n items: a negative index counts
\* from the end, and both are clipped to the list
py_index(n, i) == IF i < 0 THEN Max(n + i, 0) ELSE Min(i, n)

\* the items of list[start:end] for a list of n items, as positions 1..n
py_slice(n, start, end) ==
    LET lo == py_index(n, start)
        hi == py_index(n, end)
    IN IF hi > lo THEN Lines(lo + 1, hi) ELSE NoLines

\* items[-limit:] of the items l
last_items(l, limit) ==
    IF l.last < l.first THEN NoLines ELSE Lines(Max(l.first, l.last - limit + 1), l.last)

\* start = max(0, len(logs_list) - limit * page);
\* end = len(logs_list) - limit * (page - 1);
\* page_lines = logs_list[start:end]   (bot.py:383-385), for a list of n lines
page_lines(n, page) ==
    py_slice(n, Max(0, n - PageLimit * page), n - PageLimit * (page - 1))

\* the lines of the log text: formatted[-limit:] of the page for on_cb
\* (bot.py:385-396), formatted[-200:] of logs_list[-200:] for /logs
\* (bot.py:597-600)
log_lines(r, n) ==
    IF r.h = "on_cb" THEN last_items(page_lines(n, r.ev.page), PageLimit)
    ELSE last_items(py_slice(n, -LogsLimit, n), LogsLimit)

\* the length of "(no logs for this page)"
NoLogsLen == 23
\* the length of the shortest formatted line, "[] : " and one character
MinLineLen == 6

\* the length of the log text made of the lines l, n if it has lines: an
\* empty page is shown as "(no logs for this page)" by on_cb (bot.py:386-387)
\* and as the empty text by /logs
log_text_len(r, l, n) ==
    IF l.last >= l.first THEN n ELSE IF r.h = "on_cb" THEN NoLogsLen ELSE 0

\* a text of n characters can be made of the lines l: each line has
\* MinLineLen characters or more and a newline stands between two lines
text_of_lines(l, n) ==
    IF l.last < l.first THEN n = 0
    ELSE n >= (l.last - l.first + 1) * (MinLineLen + 1) - 1

\* a handler returns after showing the log text of n characters made of the
\* lines of the response
ShowLogs(r, outcome, n) ==
    LET l == log_lines(r, r.calls[Len(r.calls)].count)
        len == log_text_len(r, l, n)
    IN [Done(Reply(RespondLen(r, outcome, len), "rendered"))
           EXCEPT !.loc.shown = display_text(len), !.loc.lines = l]

\* a mutant of restart_reply: the success text is sent whatever ok is
restart_reply_always_ok(ok) == "restart_ok"

\* the text on_cb shows when restart_service has returned (bot.py:411-414)
restart_reply(ok) == IF ok THEN "restart_ok" ELSE "restart_failed"

\* a mutant of cb_needs_login: svc_restart runs without the key check
cb_needs_login_not_restart(ev) ==
    ev.op \in {"account", "list_apps", "svc", "svc_status", "svc_logs",
               "svc_deploy", "svc_env"}

\* the branches of on_cb that return "Please /login first." when api is None
cb_needs_login(ev) ==
    ev.op \in {"account", "list_apps", "svc", "svc_status", "svc_logs",
               "svc_restart", "svc_deploy", "svc_env"}

\* on_cb up to its first await
cb_start(uid, ev, st) ==
    LET r == [Handler("on_cb", uid, ev) EXCEPT !.key = get_user_key(st, uid),
                                                 !.loc.sid = ev.sid,
                                                 !.popped = IF ev.op \in FlowOps
                                                            THEN pending_of(st, uid)
                                                            ELSE NoEntry]
    IN CASE cb_needs_login(ev) /\ r.key = "none" ->
                Res(Done(Reply(r, "login_first")), st)
         [] ev.op \in {"account", "list_apps", "svc", "svc_status", "svc_logs", "svc_env"}
                /\ ~(cb_needs_login(ev) /\ r.key = "none") ->
                Res(Request(r, cb_first_call(ev), "cb_wait"), st)
         [] ev.op = "create_root" ->
                Res(Done(Reply(r, "select_type")), st)
         [] ev.op = "create_type" ->
                IF ev.stype \notin VALID_SERVICE_TYPES
                THEN Res(Done(Reply(r, "invalid_type")), st)
                ELSE Res(Done(Reply(r, "type_selected")),
                         set_pending(st, uid, CreateEntry(ev.stype)))
         [] ev.op = "repo_mappings" ->
                Res(Done(Reply(r, IF DOMAIN st.repos = {} THEN "no_mappings"
                                  ELSE "mappings")), st)
         [] ev.op = "repo_info" ->
                IF ~Has(st.repos, ev.sid) THEN Res(Done(Reply(r, "no_mapping")), st)
                ELSE LET mp == st.repos[ev.sid]
                     IN Res(Done(Reply([r EXCEPT !.loc.repo = mp.repo,
                                                 !.loc.branch = mp.branch.s,
                                                 !.loc.start_cmd = mp.startCommand],
                                       "mapping_info")), st)
         [] ev.op = "svc_restart" /\ ~(cb_needs_login(ev) /\ r.key = "none") ->
                Res([Reply(r, "restarting") EXCEPT !.pc = "restart_edit"], st)
         [] ev.op = "svc_deploy" /\ ~(cb_needs_login(ev) /\ r.key = "none") ->
                Res([Reply(r, "deploying") EXCEPT !.pc = "deploy_edit"], st)
         [] ev.op = "svc_repo_set" ->
                Res(Done(Reply(r, "send_repo")),
                    set_pending(st, uid, FlowEntry("set_repo", ev.sid)))
         [] ev.op = "env_add" ->
                Res(Done(Reply(r, "send_env_lines")),
                    set_pending(st, uid, FlowEntry("env_add", ev.sid)))
         [] ev.op = "env_del" ->
                Res(Done(Reply(r, "send_env_key")),
                    set_pending(st, uid, FlowEntry("env_del", ev.sid)))
         [] ev.op = "unknown" ->
                Res(Done(Reply(r, "unknown_action")), st)

\* on_cb resumed from an await; outcome is the outcome of the request it awaited
cb_resume(r, st, outcome, n) ==
    CASE r.pc = "cb_wait" ->
            LET r1 == Respond(r, outcome)
            IN IF ~request_ok(outcome) THEN Res(Done(Reply(r1, "fetch_failed")), st)
               \* the body is a str: service.get raises AttributeError
               \* (bot.py:333-334, 352), the other branches test the type
               ELSE IF outcome = "2xx_text"
               THEN CASE r.ev.op \in {"svc", "svc_status"} -> Res(Raise(r1), st)
                      [] r.ev.op = "list_apps" -> Res(Done(Reply(r1, "no_services")), st)
                      [] r.ev.op = "svc_logs" -> Res(Done(Reply(r1, "unexpected_format")), st)
                      [] OTHER -> Res(Done(Reply(r1, "rendered")), st)
               ELSE IF r.ev.op = "svc_logs" THEN Res(ShowLogs(r, outcome, n), st)
               ELSE Res(Done(Reply(r1, "rendered")), st)
      [] r.pc = "restart_edit" ->
            Res(Request(r, Call("restart", r.loc.sid, <<>>), "restart_wait"), st)
      [] r.pc = "restart_wait" ->
            IF restart_fallback(outcome)
            THEN Res(Request(Respond(r, outcome),
                             Call("deploy", r.loc.sid, [clearCache |-> FALSE]),
                             "restart_deploy_wait"), st)
            ELSE Res(Done(Reply(Respond(r, outcome), restart_reply(request_ok(outcome)))), st)
      [] r.pc = "restart_deploy_wait" ->
            Res(Done(Reply(Respond(r, outcome), restart_reply(request_ok(outcome)))), st)
      [] r.pc = "deploy_edit" ->
            Res(Request(r, Call("deploy", r.loc.sid, [clearCache |-> FALSE]), "deploy_wait"), st)
      [] r.pc = "deploy_wait" ->
            Res(Done(Reply(Respond(r, outcome),
                           IF request_ok(outcome) THEN "deploy_ok" ELSE "deploy_failed")), st)

OnCb(uid, ev) == Commit({}, cb_start(uid, ev, St))

-----------------------------------------------------------------------------
(* Private text messages: private_text_handler (bot.py:481-684) *)

\* the kv dict of the env_add flow, in insertion order: kv[k] = v
KvSet(kv, k, v) ==
    IF \E i \in 1..Len(kv) : kv[i].key = k
    THEN [i \in 1..Len(kv) |-> IF kv[i].key = k THEN [key |-> k, value |-> v] ELSE kv[i]]
    ELSE Append(kv, [key |-> k, value |-> v])

\* a mutant of split_kv: the line is split on its last "=" (rsplit)
split_kv_last(line) ==
    LET i == CHOOSE j \in 1..Len(line) :
                 line[j] = "=" /\ \A m \in (j+1)..Len(line) : line[m] # "="
    IN [k |-> Strip(SubSeq(line, 1, i - 1)), v |-> Strip(SubSeq(line, i + 1, Len(line)))]

\* k, v = line.split("=", 1); k = k.strip(); v = v.strip()   (a line holding "=")
split_kv(line) ==
    LET i == Find(line, "=")
    IN [k |-> Strip(SubSeq(line, 1, i - 1)), v |-> Strip(SubSeq(line, i + 1, Len(line)))]

\* the loop over txt.splitlines() (bot.py:648-653), from line i on
RECURSIVE parse_lines(_, _, _)
parse_lines(lines, i, kv) ==
    IF i > Len(lines) THEN kv
    ELSE IF Find(lines[i], "=") = 0 THEN parse_lines(lines, i + 1, kv)
    ELSE LET p == split_kv(lines[i])
         IN IF p.k # <<>> THEN parse_lines(lines, i + 1, KvSet(kv, p.k, p.v))
            ELSE parse_lines(lines, i + 1, kv)

parse_env(txt) == parse_lines(SplitLines(txt), 1, <<>>)

\* create_service: the JSON body (render_api.py:118-150); NoneV is a key the
\* body does not hold.  runtime, build_command, env_vars and plan are never
\* passed by the bot.
create_body(owner_id, name, service_type, repo, branch, start_command) ==
    LET withRepo == \/ service_type \in repo_types
                    \/ service_type = "static_site" /\ Truthy(repo)
    IN [ownerId |-> owner_id, name |-> name, type |-> service_type,
        repo |-> IF withRepo THEN repo ELSE NoneV,
        branch |-> IF withRepo THEN Str(branch) ELSE NoneV,
        startCommand |-> IF service_type \in repo_types /\ Truthy(start_command)
                         THEN start_command ELSE NoneV]

\* create_service fails before any request (render_api.py:115-116, 126-128)
create_rejected_locally(service_type, repo) ==
    \/ service_type \notin VALID_SERVICE_TYPES
    \/ service_type \in repo_types /\ ~Truthy(repo)

\* the update dict of /setrepo and of the set_repo flow (bot.py:540-546, 622-628)
update_fields(repo, branch, start_cmd) ==
    [repo |-> IF Truthy(repo) THEN repo ELSE NoneV,
     branch |-> IF branch # <<>> THEN Str(branch) ELSE NoneV,
     startCommand |-> IF Truthy(start_cmd) THEN start_cmd ELSE NoneV]

\* "if not update_fields": the dict is empty
update_empty(u) == u.repo.isNone /\ u.branch.isNone /\ u.startCommand.isNone

\* the list GET /owners returned: a list of items, each wrapping an owner with
\* a type and an id; or something that is not a list
OwnerList(items) == [isList |-> TRUE, items |-> items]
NotAList == NoData

\* a mutant of resolve_owner_id: the first owner of the list, team or not
resolve_owner_id_first_item(ok, data) ==
    IF ~ok \/ ~data.isList \/ data.items = <<>> THEN "none" ELSE data.items[1].id

\* resolve_owner_id (render_api.py:73-86): the first team, else the first user
resolve_owner_id(ok, data) ==
    LET firstOf(t) == CHOOSE i \in 1..Len(data.items) :
                          /\ data.items[i].type = t
                          /\ \A j \in 1..(i-1) : data.items[j].type # t
        hasType(t) == \E i \in 1..Len(data.items) : data.items[i].type = t
    IN IF ~ok \/ ~data.isList THEN "none"
       ELSE IF hasType("team") THEN data.items[firstOf("team")].id
       ELSE IF hasType("user") THEN data.items[firstOf("user")].id
       ELSE "none"

\* resolve_owner_id raises AttributeError: an item whose owner is neither a
\* dict nor falsy (type "str" here) is reached by the first loop, which ends
\* at the first team
resolve_owner_raises(ok, data) ==
    /\ ok /\ data.isList
    /\ \E i \in 1..Len(data.items) :
          /\ data.items[i].type = "str"
          /\ \A j \in 1..(i-1) : data.items[j].type # "team"

\* the text after the command prefix of a quick command, or the whole text:
\* message.text.strip() has no white space at either end
TextOf(ev) == Strip(ev.body)

\* /create (bot.py:487-513), up to the first await
create_start(r, st) ==
    LET parts == Parts(TextOf(r.ev))
        popped == pending_of(st, r.uid)
        st1 == pop_pending(st, r.uid)
        service_type == IF popped.type = "create" THEN popped.service_type ELSE "none"
        r1 == [r EXCEPT !.popped = popped,
                        !.key = get_user_key(st, r.uid),
                        !.loc.name = parts[1],
                        !.loc.repo = PartOrNone(parts, 2),
                        !.loc.branch = BranchOf(parts, 3),
                        !.loc.start_cmd = PartOrNone(parts, 4),
                        !.loc.service_type = service_type]
    IN IF service_type = "none" THEN Res(Done(Reply(r1, "select_type_first")), st1)
       ELSE IF r1.key = "none" THEN Res(Done(Reply(r1, "login_first")), st1)
       ELSE Res(Request(r1, Call("owners", <<>>, <<>>), "create_owner_wait"), st1)

\* /setrepo (bot.py:527-550), up to the first await
setrepo_start(r, st) ==
    LET parts == Parts(TextOf(r.ev))
        r1 == [r EXCEPT !.key = get_user_key(st, r.uid)]
    IN IF Len(parts) < 2 THEN Res(Done(Reply(r1, "usage_setrepo")), st)
       ELSE LET r2 == [r1 EXCEPT !.loc.sid = parts[1],
                                 !.loc.repo = Str(parts[2]),
                                 !.loc.branch = BranchOf(parts, 3),
                                 !.loc.start_cmd = PartOrNone(parts, 4)]
            IN IF r2.key = "none" THEN Res(Done(Reply(r2, "login_first")), st)
               ELSE IF update_empty(update_fields(r2.loc.repo, r2.loc.branch, r2.loc.start_cmd))
               THEN Res(Done(Reply(r2, "nothing_to_update")), st)
               ELSE Res([Reply(r2, "updating") EXCEPT !.pc = "update_reply"], st)

\* /logs (bot.py:572-583), up to the first await
logs_start(r, st) ==
    LET r1 == [r EXCEPT !.key = get_user_key(st, r.uid), !.loc.sid = TextOf(r.ev)]
    IN IF r1.key = "none" THEN Res(Done(Reply(r1, "login_first")), st)
       ELSE Res(Request(r1, Call("get_service_logs", r1.loc.sid,
                                 get_service_logs_params(LogsLimit)), "logs_wait"), st)

\* a pending set_repo flow takes the text (bot.py:611-632)
flow_set_repo(r, st) ==
    LET parts == Parts(TextOf(r.ev))
        r1 == [r EXCEPT !.loc.sid = r.popped.service_id.s,
                        !.loc.repo = Str(parts[1]),
                        !.loc.branch = BranchOf(parts, 2),
                        !.loc.start_cmd = PartOrNone(parts, 3)]
    IN IF r1.key = "none" THEN Res(Done(Reply(r1, "login_first")), st)
       ELSE IF update_empty(update_fields(r1.loc.repo, r1.loc.branch, r1.loc.start_cmd))
       THEN Res(Done(Reply(r1, "no_update_cancelled")), st)
       ELSE Res([Reply(r1, "updating") EXCEPT !.pc = "update_reply"], st)

\* a mutant of flow_env_add: the request is issued even when kv is empty
flow_env_add_unchecked(r, st) ==
    LET kv == parse_env(TextOf(r.ev))
        r1 == [r EXCEPT !.loc.sid = r.popped.service_id.s]
    IN IF r1.key = "none" THEN Res(Done(Reply(r1, "login_first")), st)
       ELSE Res(Request(r1, Call("upsert_env_vars", r1.loc.sid, kv), "flow_wait"), st)

\* a pending env_add flow takes the text (bot.py:641-658)
flow_env_add(r, st) ==
    LET kv == parse_env(TextOf(r.ev))
        r1 == [r EXCEPT !.loc.sid = r.popped.service_id.s]
    IN IF r1.key = "none" THEN Res(Done(Reply(r1, "login_first")), st)
       ELSE IF kv = <<>> THEN Res(Done(Reply(r1, "no_valid_pairs_cancelled")), st)
       ELSE Res(Request(r1, Call("upsert_env_vars", r1.loc.sid, kv), "flow_wait"), st)

\* a pending env_del flow takes the text (bot.py:665-676)
flow_env_del(r, st) ==
    LET key_name == Strip(TextOf(r.ev))
        r1 == [r EXCEPT !.loc.sid = r.popped.service_id.s]
    IN IF key_name = <<>> THEN Res(Done(Reply(r1, "no_key_cancelled")), st)
       ELSE IF r1.key = "none" THEN Res(Done(Reply(r1, "login_first")), st)
       ELSE Res(Request(r1, Call("delete_env_var", r1.loc.sid, key_name), "flow_wait"), st)

\* a text that is no quick command (bot.py:607-684): the pending entry is
\* popped first, whatever its type; a type with no branch falls to the fallback
text_start(r, st) ==
    LET popped == pending_of(st, r.uid)
        st1 == pop_pending(st, r.uid)
        r1 == [r EXCEPT !.popped = popped, !.key = get_user_key(st, r.uid)]
    IN CASE popped.type = "set_repo" -> flow_set_repo(r1, st1)
         [] popped.type = "env_add" -> flow_env_add(r1, st1)
         [] popped.type = "env_del" -> flow_env_del(r1, st1)
         [] OTHER -> Res(Done(Reply(r1, "unrecognized")), st1)

\* private_text_handler up to its first await
private_text_start(uid, ev, st) ==
    LET r == Handler("private_text_handler", uid, ev)
    IN CASE ev.op = "create" -> create_start(r, st)
         [] ev.op = "setrepo" -> setrepo_start(r, st)
         [] ev.op = "logs" -> logs_start(r, st)
         [] ev.op = "text" -> text_start(r, st)

\* private_text_handler resumed from an await: outcome is the outcome of the
\* request it awaited, owners the body of GET /owners, new_id the id in the
\* body of POST /services (NoneV when the body holds none)
private_text_resume(r, st, outcome, owners, new_id, n) ==
    CASE r.pc = "create_owner_wait" ->
            LET owner_id == resolve_owner_id(request_ok(outcome), owners)
                r0 == RespondData(r, outcome, IF request_ok(outcome) THEN owners ELSE NoData)
                r1 == [r0 EXCEPT !.loc.owner_id = owner_id]
            IN IF resolve_owner_raises(request_ok(outcome), owners)
               THEN Res(Raise(r0), st)
               ELSE IF owner_id = "none" THEN Res(Done(Reply(r1, "no_owner")), st)
               ELSE Res([Reply(r1, "creating") EXCEPT !.pc = "create_reply"], st)
      [] r.pc = "create_reply" ->
            IF create_rejected_locally(r.loc.service_type, r.loc.repo)
            THEN Res(Done(Reply(r, "create_failed")), st)
            ELSE Res(Request(r, Call("create_service", <<>>,
                                     create_body(r.loc.owner_id, r.loc.name,
                                                 r.loc.service_type, r.loc.repo,
                                                 r.loc.branch, r.loc.start_cmd)),
                             "create_wait"), st)
      \* the reply of a created service shows its id: the handler that
      \* returned keeps it in loc.sid
      [] r.pc = "create_wait" ->
            LET r1 == Respond(r, outcome)
            IN IF ~request_ok(outcome) THEN Res(Done(Reply(r1, "create_failed")), st)
               \* res is a str: res.get raises AttributeError (bot.py:517)
               ELSE IF outcome = "2xx_text" THEN Res(Raise(r1), st)
               ELSE IF new_id.isNone THEN Res(Done(Reply(r1, "created")), st)
               ELSE Res([Done(Reply([r1 EXCEPT !.loc.sid = new_id.s], "created"))
                            EXCEPT !.loc.sid = new_id.s],
                        set_repo_mapping(st, new_id.s,
                                         IF Truthy(r.loc.repo) THEN r.loc.repo ELSE Str(<<>>),
                                         Str(r.loc.branch), r.loc.start_cmd))
      [] r.pc = "update_reply" ->
            Res(Request(r, Call("update_service", r.loc.sid,
                                update_fields(r.loc.repo, r.loc.branch, r.loc.start_cmd)),
                        "update_wait"), st)
      [] r.pc = "update_wait" ->
            LET r1 == Respond(r, outcome)
            IN IF request_ok(outcome)
               THEN Res(Done(Reply(r1, "updated")),
                        set_repo_mapping(st, r.loc.sid, r.loc.repo, Str(r.loc.branch),
                                         r.loc.start_cmd))
               ELSE Res(Done(Reply(r1, "update_failed")), st)
      [] r.pc = "flow_wait" ->
            Res(Done(Reply(Respond(r, outcome),
                           IF request_ok(outcome) THEN "flow_ok" ELSE "flow_failed")), st)
      [] r.pc = "logs_wait" ->
            IF ~request_ok(outcome) THEN Res(Done(Reply(Respond(r, outcome), "fetch_failed")), st)
            ELSE IF outcome = "2xx_text"
            THEN Res(Done(Reply(Respond(r, outcome), "unexpected_format")), st)
            ELSE Res(ShowLogs(r, outcome, n), st)

PrivateText(uid, ev) == Commit({}, private_text_start(uid, ev, St))

-----------------------------------------------------------------------------
(* Process restart: the module is loaded again (bot.py:43-51) *)

\* state is read from STATE_FILE; the suspended handlers are gone
ProcessRestart ==
    /\ api_keys' = disk.api_keys
    /\ repos' = disk.repos
    /\ pending' = disk.pending
    /\ inflight' = EmptyBag
    /\ fin' = Idle
    /\ UNCHANGED <<disk, applied>>

-----------------------------------------------------------------------------
Init ==
    /\ api_keys = EmptyDict
    /\ repos = EmptyDict
    /\ pending = EmptyDict
    /\ disk = [api_keys |-> EmptyDict, repos |-> EmptyDict, pending |-> EmptyDict]
    /\ inflight = EmptyBag
    /\ fin = Idle
    /\ applied = EmptyDict

-----------------------------------------------------------------------------
(* Inputs *)

CbEv(op, sid, stype, page) == Ev(op, sid, stype, page, <<>>, "none")
TextEv(cmd, body) == Ev(cmd, <<>>, "none", 0, body, "none")

\* the service types a create_type button may carry: one of repo_types, the
\* static site, one valid type that is neither, and a type that is not valid
StypeInputs == {"web_service", "static_site", "cron_job", "bogus"}

\* bodies of GET /owners
OwnerBodies ==
    {NotAList, OwnerList(<<>>),
     OwnerList(<<[type |-> "user", id |-> "usr-1"], [type |-> "team", id |-> "tea-1"]>>)}

\* the id in the body of POST /services
NewIds == {NoneV, Str(<<"s">>)}

-----------------------------------------------------------------------------
(* Actions *)

\* the awaits that wait for a message delivery, not for a remote response
DeliveryPcs == {"restart_edit", "deploy_edit", "create_reply", "update_reply"}

\* what the remote service may answer: the outcomes of a request, the bodies
\* of GET /owners, the ids in the body of POST /services and the lengths of
\* the log texts; the transport delivers every message, the bodies hold
\* the text "e" and the logs no line unless a specification says otherwise
Answers(outs, owners, ids, lens) ==
    [outs |-> outs, owners |-> owners, ids |-> ids, lens |-> lens,
     deliveries |-> {<<"ok", "ok">>}, bodies |-> {<<"e">>}, counts |-> {0}]
Usual == Answers(Outcomes, OwnerBodies, NewIds, {0})

\* the message a handler awaits the delivery of was sent with safe_edit by
\* on_cb and with safe_reply by private_text_handler
DeliveryKind(r) == IF r.h = "on_cb" THEN "edit" ELSE "reply"

\* the remote service answers the update request of handler r, applying the
\* update if it answers with success; the response is on its way and the
\* handler still suspended
RemoteApplies(r, X) ==
    LET c == r.calls[Len(r.calls)]
    IN /\ r.pc = "update_wait" /\ c.res = "sent" /\ ~url_invalid(c)
       /\ \E outcome \in X.outs \ {"badurl"} :
             /\ inflight' = (inflight (-) SetToBag({r})) (+) SetToBag({Respond(r, outcome)})
             /\ applied' = IF request_ok(outcome) THEN DictSet(applied, c.sid, c.body)
                           ELSE applied
       /\ UNCHANGED <<api_keys, repos, pending, disk, fin>>

\* a handler that awaits the logs of a service
AwaitsLogs(r) == r.pc = "logs_wait" \/ (r.pc = "cb_wait" /\ r.ev.op = "svc_logs")

\* the remote service returns at most limit lines; what it does with a
\* limit below 1 is not known
returns_at_most(limit, count) == limit >= 1 => count <= limit

\* a suspended handler resumes: with the outcome of the request it awaited,
\* and with the body of the response where the handler reads it; a request
\* whose URL cannot be built raises, and the exception leaves the handler
ResumeWith(r, X) ==
    \E outcome \in (IF r.pc \in DeliveryPcs THEN {"2xx"}
                    ELSE IF url_invalid(r.calls[Len(r.calls)]) THEN {"badurl"}
                    ELSE IF r.calls[Len(r.calls)].res # "sent" THEN {r.calls[Len(r.calls)].res}
                    ELSE X.outs \ {"badurl"}),
       owners \in (IF r.pc = "create_owner_wait" THEN X.owners ELSE {NotAList}),
       new_id \in (IF r.pc = "create_wait" THEN X.ids ELSE {NoneV}),
       n \in (IF AwaitsLogs(r) THEN X.lens ELSE {0}),
       count \in (IF AwaitsLogs(r) THEN X.counts ELSE {0}),
       dv \in (IF r.pc \in DeliveryPcs THEN X.deliveries ELSE {<<"ok", "ok">>}),
       body \in (IF r.pc \in DeliveryPcs THEN {<<>>} ELSE X.bodies) :
        LET r0 == IF r.pc \in DeliveryPcs
                  THEN [r EXCEPT !.sends = Append(@, safe_send(DeliveryKind(r), dv[1], dv[2]))]
                  ELSE [r EXCEPT !.calls[Len(r.calls)].text =
                                     IF outcome \in {"neterr", "badurl"} THEN <<>> ELSE body,
                                 !.calls[Len(r.calls)].count =
                                     IF outcome = "2xx" THEN count ELSE 0]
        IN /\ AwaitsLogs(r) =>
                IF outcome = "2xx"
                THEN /\ returns_at_most(r.calls[Len(r.calls)].body.limit, count)
                     /\ text_of_lines(log_lines(r, count), n)
                ELSE count = 0
           /\ Commit({r}, IF request_raises(outcome) THEN Res(Raise(Respond(r0, outcome)), St)
                       ELSE CASE r.h = "cmd_login" -> login_resume(r0, St, outcome)
                              [] r.h = "on_cb" -> cb_resume(r0, St, outcome, n)
                              [] r.h = "private_text_handler" ->
                                    private_text_resume(r0, St, outcome, owners, new_id, n))

Resume(r) == ResumeWith(r, Usual)

\* cmd_dumpstate (bot.py:688-690): the reply is the whole state as JSON, the
\* credentials of every user first in it, sent to the chat the command came
\* from; it reads no key and awaits nothing but the delivery
dumpstate_start(uid, st) ==
    LET r == [Handler("cmd_dumpstate", uid, Ev("dumpstate", <<>>, "none", 0, <<>>, "none"))
                 EXCEPT !.dump = st.api_keys]
    IN Done(Reply(r, "state_dump"))

\* user uid sends /dumpstate in a chat that is not private: in a private chat
\* the text is taken by private_text_handler, which is registered before
\* cmd_dumpstate
CmdDumpstate(uid) == Commit({}, Res(dumpstate_start(uid, St), St))

\* one step of the bot: LG are the (user, key) pairs of the /login commands
\* sent, CB the (user, callback) pairs of the buttons pressed, TX the
\* (user, text) pairs of the private texts sent, X the answers of the remote
\* service; a text is never empty after strip
StepWith(LG, CB, TX, X) ==
    \/ \E e \in LG : CmdLogin(e[1], e[2])
    \/ \E e \in CB : OnCb(e[1], e[2])
    \/ \E e \in TX : Strip(e[2].body) # <<>> /\ PrivateText(e[1], e[2])
    \/ \E r \in BagToSet(inflight) : ResumeWith(r, X)
    \/ ProcessRestart

Step(LG, CB, TX) == StepWith(LG, CB, TX, Usual)

-----------------------------------------------------------------------------
(* Specifications.  Each draws the events from sets chosen for the claims   *)
(* checked under it; the actions and the state are the same in all.        *)

Btn(ops, sids) == {CbEv(op, s, "none", 0) : op \in ops, s \in sids}

\* The conversation flows: user u1 begins every kind of flow, on two services
\* for env_add, and answers with a KEY=VALUE line, a bare word or a /create
\* line; user u2, who never logs in, begins and answers a flow of their own.
FlowLG == {"u1"} \X Keys
FlowCB ==
    ({"u1"} \X ({CbEv("create_type", <<>>, "web_service", 0)}
                \cup Btn({"svc_repo_set", "env_add", "env_del"}, {<<"n">>})
                \cup Btn({"env_add"}, {<<"s">>})))
    \cup {<<"u2", CbEv("env_del", <<"s">>, "none", 0)>>}
FlowTX ==
    ({"u1"} \X {TextEv("text", <<"A", "=", "1">>), TextEv("text", <<"n">>),
                TextEv("create", <<"n", "|", "r">>)})
    \cup {<<"u2", TextEv("text", <<"n">>)>>}

Next == Step(FlowLG, FlowCB, FlowTX)

Spec == Init /\ [][Next]_vars

\* Restart and deploy: both users log in and restart a service; u1 also
\* deploys, u2 lists the services, and u1 sends a text.
RestartLG == Users \X Keys
RestartCB ==
    ({"u1"} \X Btn({"svc_restart", "svc_deploy"}, {<<"n">>}))
    \cup ({"u2"} \X (Btn({"svc_restart"}, {<<"s">>}) \cup {CbEv("list_apps", <<>>, "none", 0)}))
RestartTX == {<<"u1", TextEv("text", <<"n">>)>>}

SpecRestart == Init /\ [][Step(RestartLG, RestartCB, RestartTX)]_vars

\* The user without a credential: u1 never logs in and taps every kind of
\* button and sends every kind of text; u2 logs in and lists the services.
AnonLG == {"u2"} \X Keys
AnonCB ==
    ({"u1"} \X ({CbEv(op, <<"n">>, "none", 1) : op \in CbOps \ {"create_type"}}
                \cup {CbEv("create_type", <<>>, t, 0) : t \in {"web_service", "bogus"}}))
    \cup {<<"u2", CbEv("list_apps", <<>>, "none", 0)>>}
AnonTX ==
    {"u1"} \X {TextEv("create", <<"n", "|", "r">>), TextEv("setrepo", <<"n", "|", "r">>),
               TextEv("setrepo", <<"n">>), TextEv("logs", <<"n">>),
               TextEv("text", <<"n">>)}

SpecAnon == Init /\ [][Step(AnonLG, AnonCB, AnonTX)]_vars

\* The environment flow: the lines a reply is made of are a pair with white
\* space around key and value, a pair of the same key whose value holds a
\* "=", a line without "=" and a line whose key is empty.
EnvLines == {<<" ", "A", " ", "=", " ", "1", " ">>,
             <<"A", "=", "2", "=", "3">>,
             <<"B">>,
             <<" ", "=", "1">>}

\* the texts of n lines
RECURSIVE EnvTexts(_)
EnvTexts(n) ==
    IF n = 1 THEN EnvLines
    ELSE {t \o <<"\n">> \o l : t \in EnvTexts(n - 1), l \in EnvLines}

\* the handlers that are suspended or have just returned
Handlers == BagToSet(inflight) \cup {fin}

\* u1 logs in, begins the flow and replies with up to MaxLines lines, sending
\* the same text again while a handler of an earlier reply is still known;
\* u2 begins the flow without a credential and replies with one line.
EnvLG == {"u1"} \X Keys
EnvCB == Users \X Btn({"env_add"}, {<<"n">>})
EnvTX ==
    LET all == UNION {EnvTexts(n) : n \in 1..MaxLines}
        sent == {r.ev.body : r \in {h \in Handlers : h.h = "private_text_handler"
                                                       /\ h.uid = "u1"}}
    IN ({"u1"} \X {TextEv("text", t) : t \in IF sent = {} THEN all ELSE sent})
       \cup ({"u2"} \X {TextEv("text", <<"B">>), TextEv("text", <<"A", "=", "1">>)})

SpecEnv == Init /\ [][Step(EnvLG, EnvCB, EnvTX)]_vars

\* Creating a service: u1 logs in, selects a type that requires a
\* repository, the static site or the cron job, and sends /create with a
\* name and a repository, the branch skipped, left empty or given together
\* with a start command.
CreateLG == {"u1"} \X Keys
CreateCB == {"u1"} \X {CbEv("create_type", <<>>, t, 0) : t \in StypeInputs \ {"bogus"}}
CreateTX == {"u1"} \X {TextEv("create", <<"n", "|", "r">>),
                       TextEv("create", <<"n", "|", "r", "|", " ">>),
                       TextEv("create", <<"n", "|", "r", "|", "b", "|", "c">>)}

SpecCreate == Init /\ [][Step(CreateLG, CreateCB, CreateTX)]_vars

\* The remote client at its boundary: besides the usual answers, a 2xx
\* response whose body is not JSON and a list of owners one of which is no
\* dict; u1 logs in, asks for the logs of a service and of an id that holds
\* a newline, creates a service, lists the services and opens one and its
\* status.
ClientLG == {"u1"} \X Keys
ClientCB == {"u1"} \X ({CbEv("create_type", <<>>, "web_service", 0),
                         CbEv("list_apps", <<>>, "none", 0)}
                        \cup Btn({"svc", "svc_status"}, {<<"n">>}))
ClientTX == {"u1"} \X {TextEv("logs", <<"n">>), TextEv("logs", <<"a", "\n", "b">>),
                       TextEv("create", <<"n", "|", "r">>)}
ClientAnswers ==
    Answers(AllOutcomes,
            OwnerBodies \cup {OwnerList(<<[type |-> "str", id |-> "none"],
                                          [type |-> "team", id |-> "tea-1"]>>)},
            NewIds, {0})

SpecClient == Init /\ [][StepWith(ClientLG, ClientCB, ClientTX, ClientAnswers)]_vars

\* Resolving the owner: GET /owners answers with a list of up to MaxOwners
\* owners, two users and two teams to choose from, the same list throughout
\* while a handler that received it is still known; u1 logs in and creates a
\* web service.
OwnerItems == {[type |-> "user", id |-> "usr-1"], [type |-> "user", id |-> "usr-2"],
               [type |-> "team", id |-> "tea-1"], [type |-> "team", id |-> "tea-2"]}

RECURSIVE OwnerLists(_)
OwnerLists(n) ==
    IF n = 0 THEN {<<>>}
    ELSE {Append(l, o) : l \in OwnerLists(n - 1), o \in OwnerItems}

OwnerLG == {"u1"} \X Keys
OwnerCB == {"u1"} \X {CbEv("create_type", <<>>, "web_service", 0)}
OwnerTX == {"u1"} \X {TextEv("create", <<"n", "|", "r">>)}
OwnerAnswers ==
    LET all == {NotAList} \cup {OwnerList(l) : l \in UNION {OwnerLists(n) : n \in 0..MaxOwners}}
        got == {r.calls[1].data : r \in {h \in Handlers : h.h = "private_text_handler"
                                                           /\ h.calls # <<>>
                                                           /\ h.calls[1].data.isList}}
    IN Answers(Outcomes, IF got = {} THEN all ELSE got, NewIds, {0})

SpecOwner == Init /\ [][StepWith(OwnerLG, OwnerCB, OwnerTX, OwnerAnswers)]_vars

\* Logs and lists: u1 logs in, lists the services, asks for the logs with
\* /logs and pages through them with the log buttons, whose callback data
\* names any page, also none or a negative one.
LogPages == {-1, 0, 1, 2, 3}
LogsLG == {"u1"} \X Keys
LogsCB == {"u1"} \X ({CbEv("svc_logs", <<"n">>, "none", p) : p \in LogPages}
                     \cup {CbEv("list_apps", <<>>, "none", 0)})
LogsTX == {"u1"} \X {TextEv("logs", <<"n">>)}
\* the log texts are empty, one shortest line, one character below, at and
\* above the longest text shown whole, and far above it
LogLengths == {0, MinLineLen, DisplayMax - 1, DisplayMax, DisplayMax + 1, 2 * DisplayMax}
\* the remote service returns no line, one, fewer than a page, a page, one
\* more, and as many as it ever returns
LogCounts == {0, 1, PageLimit - 20, PageLimit, PageLimit + 1, LimitMax}
LogsAnswers == [Answers(Outcomes, OwnerBodies, NewIds, LogLengths) EXCEPT !.counts = LogCounts]

SpecLogs == Init /\ [][StepWith(LogsLG, LogsCB, LogsTX, LogsAnswers)]_vars

\* Delivery: the transport answers the messages "Restarting...",
\* "Deploying..." and "Updating service..." in every way; u1 logs in,
\* restarts and deploys a service and sets its repository.
DeliveryLG == {"u1"} \X Keys
DeliveryCB == {"u1"} \X Btn({"svc_restart", "svc_deploy"}, {<<"n">>})
DeliveryTX == {"u1"} \X {TextEv("setrepo", <<"n", "|", "r">>)}
DeliveryAnswers == [Usual EXCEPT !.deliveries = FirstAnswers \X SecondAnswers]

SpecDelivery == Init /\ [][StepWith(DeliveryLG, DeliveryCB, DeliveryTX, DeliveryAnswers)]_vars

\* Markup in dynamic text: the id of a service and the bodies of the
\* responses hold a "<" or a "&"; u1 logs in, sets the repository of the
\* service with /setrepo, opens the stored mapping and the service, deletes
\* an environment variable of that name and lists the services.
EscapeSid == <<"<">>
EscapeLG == {"u1"} \X Keys
EscapeCB == {"u1"} \X (Btn({"repo_info", "svc", "env_del"}, {EscapeSid})
                        \cup {CbEv("list_apps", <<>>, "none", 0)})
EscapeTX == {"u1"} \X {TextEv("setrepo", <<"<", "|", "r", "&">>), TextEv("text", <<"&", "<">>)}
EscapeAnswers == [Usual EXCEPT !.bodies = {<<"<", "b", ">">>, <<"a", "&", "b">>}]

SpecEscape == Init /\ [][StepWith(EscapeLG, EscapeCB, EscapeTX, EscapeAnswers)]_vars

\* Logging in: both users log in with either of two keys, again and again,
\* and the owners request is answered in every way; u1 lists the services
\* and sends a text.
LoginKeys == {"k1", "k2"}
LoginLG == Users \X LoginKeys
LoginCB == {"u1"} \X {CbEv("list_apps", <<>>, "none", 0)}
LoginTX == {"u1"} \X {TextEv("text", <<"n">>)}
LoginAnswers == Answers(AllOutcomes, OwnerBodies, NewIds, {0})

SpecLogin == Init /\ [][StepWith(LoginLG, LoginCB, LoginTX, LoginAnswers)]_vars

\* Setting the repository: u1 logs in, begins the flow on service n and
\* replies with a repository, with a repository, a branch and a start
\* command, or with a branch behind an empty repository; u1 also sends
\* /setrepo for n with a repository and with an empty one.
RepoLG == {"u1"} \X Keys
RepoCB == {"u1"} \X Btn({"svc_repo_set"}, {<<"n">>})
RepoTX == {"u1"} \X {TextEv("text", <<"r">>),
                     TextEv("text", <<"r", "|", "b", "|", "c">>),
                     TextEv("text", <<"|", "b">>),
                     TextEv("setrepo", <<"n", "|", "q">>),
                     TextEv("setrepo", <<"n", "|">>)}

SpecRepo == Init /\ [][Step(RepoLG, RepoCB, RepoTX)]_vars

\* Two users on one service: both log in and send /setrepo for service n,
\* each with a repository of their own; the remote service applies an update
\* when it answers it, and the responses arrive in any order; u1 opens the
\* stored mapping.
RaceLG == Users \X Keys
RaceCB == {"u1"} \X Btn({"repo_info"}, {<<"n">>})
RaceTX == {<<"u1", TextEv("setrepo", <<"n", "|", "r">>)>>,
           <<"u2", TextEv("setrepo", <<"n", "|", "q">>)>>}

\* The debug command: both users log in and either sends /dumpstate in a
\* group chat; u1 also lists the services and sends a text
DumpLG == Users \X Keys
DumpCB == {"u1"} \X {CbEv("list_apps", <<>>, "none", 0)}
DumpTX == {"u1"} \X {TextEv("text", <<"n">>)}
SpecDump ==
    Init /\ [][\/ Step(DumpLG, DumpCB, DumpTX)
               \/ \E u \in Users : CmdDumpstate(u)]_vars

SpecRace ==
    Init /\ [][\/ Step(RaceLG, RaceCB, RaceTX)
               \/ \E r \in BagToSet(inflight) : RemoteApplies(r, Usual)]_vars

-----------------------------------------------------------------------------
(* Claims *)

\* the entry a flow button begins
EntryOf(ev) == IF ev.op = "create_type" THEN CreateEntry(ev.stype)
               ELSE FlowEntry(CASE ev.op = "svc_repo_set" -> "set_repo"
                                [] ev.op = "env_add" -> "env_add"
                                [] ev.op = "env_del" -> "env_del", ev.sid)

\* a pending entry holds the fields of one flow only
OneFlowEntry(e) ==
    \/ e.type = "create" /\ e.service_type \in VALID_SERVICE_TYPES /\ e.service_id.isNone
    \/ e.type \in {"set_repo", "env_add", "env_del"} /\ e.service_type = "none"
       /\ ~e.service_id.isNone

\* this step is the return of an on_cb handler that began a flow
ButtonBegan ==
    /\ fin' # fin
    /\ fin'.h = "on_cb"
    /\ fin'.ev.op \in FlowOps
    /\ fin'.replies # <<"invalid_type">>

\* C1: a user has at most one pending entry, which holds the fields of one
\* flow only; when a button begins flow B, the user's entry is exactly B's
\* (its kind and its target), whatever flow A was pending before, and the
\* other users' entries are untouched
C1_OneFlowPerUser ==
    /\ [](\A u \in DOMAIN pending : OneFlowEntry(pending[u]))
    /\ [][ButtonBegan =>
            /\ Has(pending', fin'.uid)
            /\ pending'[fin'.uid] = EntryOf(fin'.ev)
            /\ \A u \in Users \ {fin'.uid} :
                  /\ Has(pending', u) <=> Has(pending, u)
                  /\ Has(pending, u) => pending'[u] = pending[u]]_vars

\* C1 witness: env_del on service n has just replaced u1's pending create flow
C1_Witness ==
    /\ fin.h = "on_cb" /\ fin.uid = "u1"
    /\ fin.ev.op = "env_del"
    /\ fin.popped = CreateEntry("web_service")
    /\ Has(pending, "u1") /\ pending["u1"] = FlowEntry("env_del", <<"n">>)

\* a line of an env_add reply yields a pair: it holds a "=" and, before its
\* first "=", a character that is no white space
YieldsPair(line) ==
    \E j \in 1..Len(line) :
        /\ ~IsSpace(line[j]) /\ line[j] # "="
        /\ \A m \in 1..(j-1) : line[m] # "="
        /\ \E i \in (j+1)..Len(line) : line[i] = "="

NoValidPair(txt) == \A i \in 1..Len(SplitLines(txt)) : ~YieldsPair(SplitLines(txt)[i])

\* the text this handler took as the reply to a pending flow fails the
\* flow's local validation (no text fails that of set_repo: its update dict
\* always holds the branch, "main" when the text names none)
FailsValidation(r) ==
    /\ r.h = "private_text_handler" /\ r.ev.op = "text"
    /\ \/ r.popped.type = "env_add" /\ NoValidPair(TextOf(r.ev))
       \/ r.popped.type = "env_del" /\ Strip(TextOf(r.ev)) = <<>>

\* this step is the return of a handler whose text failed validation
InvalidReplyStep == fin' # fin /\ FailsValidation(fin')

ForeignTextStep ==
    /\ fin' # fin
    /\ fin'.h = "private_text_handler"
    /\ \/ fin'.ev.op = "text" /\ fin'.popped.type = "create"
       \/ fin'.ev.op = "create" /\ fin'.popped.type \in {"set_repo", "env_add", "env_del"}

\* C3 as stated: a pending entry is destroyed only by completion, cancellation
\* or a new flow, so a text that belongs to no step of the pending flow leaves
\* the entry in place
C3_Original ==
    [][ForeignTextStep =>
          Has(pending', fin'.uid) /\ pending'[fin'.uid] = fin'.popped]_vars

\* handler r is dispatched in this step: it returns at once or joins inflight
Dispatched(r) ==
    \/ inflight' = inflight /\ fin' # fin /\ r = fin'
    \/ fin' = fin /\ inflight' = inflight (+) SetToBag({r})

MutatingOps == {"update_service", "upsert_env_vars", "delete_env_var", "create_service",
                "restart", "deploy"}

\* how many of the requests in calls are mutating ones
Mutations(calls) == Cardinality({i \in 1..Len(calls) : calls[i].op \in MutatingOps})

\* C4: the pending entry of a user is taken in one atomic step: the text
\* handler that is dispatched gets the entry the user has and leaves none, so
\* of two texts handled concurrently at most one gets it; a handler issues at
\* most one mutating request for the flow it got, and one that got none
\* issues no request and answers as to a text with nothing pending
C4_FlowTakenOnce ==
    /\ [][\A r \in BagToSet(inflight') \cup {fin'} :
             (Dispatched(r) /\ r.h = "private_text_handler" /\ r.ev.op = "text") =>
                 /\ r.popped = pending_of(St, r.uid)
                 /\ ~Has(pending', r.uid)]_vars
    /\ [](\A r \in Handlers :
             (r.h = "private_text_handler" /\ r.ev.op = "text") =>
                 /\ Mutations(r.calls) <= 1
                 /\ r.popped.type = "none" =>
                        r.calls = <<>> /\ r.replies = <<"unrecognized">>)

\* C4 witness: while u1's reply to the env_add flow waits for the upsert
\* response, a second text of u1 was handled and found nothing pending
C4_Witness ==
    /\ \E r \in BagToSet(inflight) :
          /\ r.h = "private_text_handler" /\ r.uid = "u1" /\ r.pc = "flow_wait"
          /\ r.popped.type = "env_add"
          /\ Mutations(r.calls) = 1
    /\ fin.h = "private_text_handler" /\ fin.uid = "u1" /\ fin.ev.op = "text"
    /\ fin.popped.type = "none" /\ fin.replies = <<"unrecognized">>

\* an on_cb handler of the restart button
IsRestart(r) == r.h = "on_cb" /\ r.ev.op = "svc_restart"

Failed(res) == res \in {"4xx", "5xx", "neterr"}

LastReply(r) == r.replies[Len(r.replies)]

Anonymous(r) == r.h \in {"on_cb", "private_text_handler"} /\ r.key = "none"

\* C7 as stated: every event of a user with no stored credential issues no
\* remote call and is answered with the please-login response
C7_Original ==
    \A r \in Handlers : Anonymous(r) =>
        /\ r.calls = <<>>
        /\ r.pc = "done" => r.replies = <<"login_first">>

\* the events that would go on to a remote call if the user had a credential:
\* the buttons that fetch or act remotely, /create after a type was selected,
\* /setrepo with a service and a repository, /logs, and a reply to a pending
\* repository or environment flow
ReachesRemote(r) ==
    \/ /\ r.h = "on_cb"
       /\ r.ev.op \in {"account", "list_apps", "svc", "svc_status", "svc_logs",
                       "svc_restart", "svc_deploy", "svc_env"}
    \/ /\ r.h = "private_text_handler"
       /\ \/ r.ev.op = "create" /\ r.popped.type = "create"
          \/ r.ev.op = "setrepo" /\ Len(Split(r.ev.body, "|")) >= 2
          \/ r.ev.op = "logs"
          \/ r.ev.op = "text" /\ r.popped.type \in {"set_repo", "env_add", "env_del"}

\* C7 amended: no event of a user with no stored credential issues a remote
\* call; the please-login response is given exactly to the events that would
\* go on to a remote call, and every other event (a menu, the stored
\* mappings, the beginning of a flow, a text no flow awaits, a malformed
\* command) gets its own answer, and only the login command calls out
C7_NoRemoteCallWithoutKey ==
    /\ \A r \in Handlers : Anonymous(r) =>
          /\ r.calls = <<>>
          /\ r.pc = "done"
          /\ Len(r.replies) = 1
          /\ r.replies[1] = "login_first" <=> ReachesRemote(r)
    /\ \A r \in Handlers : r.calls # <<>> =>
          r.key # "none" /\ (r.h = "cmd_login" \/ get_user_key(St, r.uid) # "none"
                                               \/ get_user_key(disk, r.uid) # "none")

\* C7 witness: a user with no stored credential has replied to a pending
\* environment flow and been told to log in
C7_Witness ==
    /\ Anonymous(fin) /\ fin.ev.op = "text" /\ fin.popped.type = "env_add"
    /\ fin.calls = <<>> /\ fin.replies = <<"login_first">>

\* a private_text_handler that took its text as the reply to a pending env_add
EnvReply(r) == r.h = "private_text_handler" /\ r.ev.op = "text" /\ r.popped.type = "env_add"

FirstEq(line) == CHOOSE i \in 1..Len(line) : line[i] = "=" /\ \A j \in 1..(i-1) : line[j] # "="
KeyOf(line) == Strip(SubSeq(line, 1, FirstEq(line) - 1))
ValueOf(line) == Strip(SubSeq(line, FirstEq(line) + 1, Len(line)))

\* the lines of a text that yield a pair
PairLines(txt) == {i \in 1..Len(SplitLines(txt)) : YieldsPair(SplitLines(txt)[i])}

\* the upsert requests among the calls of a handler
Upserts(calls) == {i \in 1..Len(calls) : calls[i].op = "upsert_env_vars"}

RepoWithoutBranch(r) ==
    /\ r.h = "private_text_handler" /\ r.ev.op = "create"
    /\ LET fields == Split(r.ev.body, "|")
       IN /\ Len(fields) >= 2 /\ Strip(fields[2]) # <<>>
          /\ Len(fields) >= 3 => Strip(fields[3]) = <<>>

\* C10 as stated: when /create names a repository and no branch, the create
\* request carries the branch "main", never an empty or a missing one
C10_Original ==
    \A r \in Handlers : RepoWithoutBranch(r) =>
        \A i \in 1..Len(r.calls) : r.calls[i].op = "create_service" =>
            r.calls[i].body.branch = Str(Main)

\* this step is the return of a /create handler from its create request
CreateReturns ==
    \E r \in BagToSet(inflight) :
        /\ r.pc = "create_wait"
        /\ inflight' = inflight (-) SetToBag({r})
        /\ fin'.pc = "done" /\ fin'.uid = r.uid /\ fin'.ev = r.ev /\ fin'.h = r.h

\* the fields of a /create text, trimmed
Fields(ev) == LET fs == Split(Strip(ev.body), "|") IN [i \in 1..Len(fs) |-> Strip(fs[i])]

\* the mapping that holds exactly what a /create text supplied: the
\* repository, the branch ("main" when skipped or empty) and the start command
\* (none when skipped or empty)
Collected(ev) ==
    LET fs == Fields(ev)
    IN [repo |-> Str(fs[2]),
        branch |-> Str(IF Len(fs) >= 3 /\ fs[3] # <<>> THEN fs[3] ELSE Main),
        startCommand |-> IF Len(fs) >= 4 /\ fs[4] # <<>> THEN Str(fs[4]) ELSE NoneV]

RepoSupplied(ev) == Len(Fields(ev)) >= 2 /\ Fields(ev)[2] # <<>>

CreateSucceeded(r) == r.calls[Len(r.calls)].res = "2xx"

\* C11 as stated: whenever /create with a repository ends in a successful
\* create request, a mapping with exactly the collected values exists; when
\* the request fails, no mapping is written
C11_Original ==
    [][(CreateReturns /\ RepoSupplied(fin'.ev)) =>
          IF CreateSucceeded(fin')
          THEN \E sid \in DOMAIN repos' : repos'[sid] = Collected(fin'.ev)
          ELSE repos' = repos]_vars

\* C11 amended: when /create with a repository ends in a successful create
\* request whose response carries the id of the created service, the mapping
\* stored and persisted under that id holds exactly the collected values and
\* no other mapping changes; when the response carries no id, or the request
\* fails, no mapping is written
C11_MappingRoundTrip ==
    [][(CreateReturns /\ RepoSupplied(fin'.ev)) =>
          IF CreateSucceeded(fin') /\ fin'.loc.sid # <<>>
          THEN /\ repos' = DictSet(repos, fin'.loc.sid, Collected(fin'.ev))
               /\ disk'.repos = repos'
          ELSE repos' = repos /\ disk' = disk]_vars

\* C11 witness: /create n | r | b | c succeeded and its mapping is stored
\* with the branch and the start command of the text
C11_Witness ==
    /\ fin.h = "private_text_handler" /\ fin.ev.op = "create" /\ fin.pc = "done"
    /\ Len(Fields(fin.ev)) = 4
    /\ fin.calls # <<>> /\ CreateSucceeded(fin) /\ fin.loc.sid # <<>>
    /\ Has(repos, fin.loc.sid) /\ repos[fin.loc.sid] = Collected(fin.ev)
    /\ repos[fin.loc.sid].branch = Str(<<"b">>)

\* C12 as stated: after the process is restarted and the state loaded, no
\* user has a pending flow, whatever was pending before
C12_Original == [][ProcessRestart => pending' = EmptyDict]_vars

\* the last request a handler issued
LastCall(r) == r.calls[Len(r.calls)]

\* an exception left a client operation and ended this handler: _request
\* raised, or resolve_owner_id raised on the owners it was given
ClientRaised(r) ==
    /\ r.pc = "raised"
    /\ \/ request_raises(LastCall(r).res)
       \/ r.h = "private_text_handler" /\ LastCall(r).op = "owners"

\* the transport failures: no response, a body that is not JSON, a request
\* whose URL could not be built
TransportFailure(res) == res \in {"neterr", "2xx_text", "badurl"}

\* C13 as stated: no exception leaves a client operation, and every transport
\* failure comes back as a result that is not ok
C13_Original ==
    \A r \in Handlers :
        /\ ~ClientRaised(r)
        /\ \A i \in 1..Len(r.calls) :
              TransportFailure(r.calls[i].res) => ~request_ok(r.calls[i].res)

\* the requests of the known handlers that were answered without raising
Answered ==
    UNION {{r.calls[i].res : i \in 1..Len(r.calls)} : r \in Handlers} \ {"sent", "badurl"}

\* the kind of a result that is not ok, as far as the result tells: the keys
\* of its error descriptor
Kind(res) == request_data(res).keys

OwnersAnswered(r) ==
    /\ r.h = "private_text_handler" /\ r.ev.op = "create"
    /\ r.calls # <<>> /\ r.calls[1].op = "owners" /\ r.calls[1].res # "sent"

\* the id resolve_owner_id must give for a listing: x is the id of the first
\* team, or there is no team and x is the id of the first user; "none" when
\* the listing failed, is no list, or holds neither
IsChoice(x, ok, d) ==
    LET is(t, i) == d.items[i].type = t
        n == Len(d.items)
    IN IF ~ok \/ ~d.isList \/ \A i \in 1..n : ~is("team", i) /\ ~is("user", i)
       THEN x = "none"
       ELSE \/ \E i \in 1..n : /\ is("team", i) /\ x = d.items[i].id
                               /\ \A j \in 1..(i-1) : ~is("team", j)
            \/ /\ \A i \in 1..n : ~is("team", i)
               /\ \E i \in 1..n : /\ is("user", i) /\ x = d.items[i].id
                                  /\ \A j \in 1..(i-1) : ~is("user", j)

C16_Original ==
    \A r \in Handlers : \A i \in 1..Len(r.calls) :
          /\ r.calls[i].op = "get_service_logs" => r.calls[i].body.limit \in 1..LimitMax
          /\ (r.calls[i].op = "list_services" /\ r.calls[i].body.hasLimit) =>
                r.calls[i].body.limit \in 1..LimitMax

\* this step is a private_text_handler that ran from start to return for a
\* text that is no quick command, sent by a user with no pending entry
NoFlowText ==
    /\ fin' # fin /\ inflight' = inflight
    /\ fin'.h = "private_text_handler" /\ fin'.ev.op = "text"
    /\ ~Has(pending, fin'.uid)

\* C17: a text that is no quick command, from a user with no pending flow, is
\* answered with the unrecognized-input reply, issues no remote call and
\* leaves the credentials, the mappings, the pending entries and the state
\* file as they were
C17_NoFlowTextIsInert ==
    [][NoFlowText =>
          /\ fin'.pc = "done"
          /\ fin'.replies = <<"unrecognized">>
          /\ fin'.calls = <<>>
          /\ UNCHANGED <<api_keys, repos, pending, disk>>]_vars

\* C17 witness: a logged-in user with mappings stored sent such a text
C17_Witness ==
    /\ fin.h = "private_text_handler" /\ fin.ev.op = "text" /\ fin.pc = "done"
    /\ fin.popped = NoEntry /\ fin.key # "none"
    /\ fin.replies = <<"unrecognized">> /\ fin.calls = <<>>
    /\ DOMAIN repos # {} /\ ~Has(pending, fin.uid)

\* a handler that returned after showing a log text
ShowedLogs(r) ==
    /\ r.pc = "done" /\ r.calls # <<>>
    /\ LastCall(r).op = "get_service_logs" /\ LastCall(r).res = "2xx"
    /\ r.replies[Len(r.replies)] = "rendered"

\* the length of a text on display
ShownLen(d) == (IF d.notice THEN NoticeLen ELSE 0) + (d.last - d.first + 1)

\* C18 as stated: a log text longer than DisplayMax is shown as a text of
\* exactly DisplayMax characters that begins with the notice and goes on with
\* a tail of the original; a text of at most DisplayMax is shown unchanged
C18_Original ==
    \A r \in Handlers : ShowedLogs(r) =>
        LET n == LastCall(r).len
            d == r.loc.shown
        IN IF n > DisplayMax
           THEN d.notice /\ d.last = n /\ d.first >= 1 /\ ShownLen(d) = DisplayMax
           ELSE d = Shown(FALSE, 1, n)

\* C18 amended: a log text longer than DisplayMax is shown as the notice
\* followed by exactly the last DisplayMax characters of the original, a text
\* of DisplayMax + NoticeLen characters; a text of at most DisplayMax is
\* shown unchanged
C18_NoticeThenTail ==
    \A r \in Handlers : ShowedLogs(r) =>
        LET n == LastCall(r).len
            d == r.loc.shown
        IN IF n > DisplayMax
           THEN /\ d.notice /\ d.last = n /\ d.first = n - DisplayMax + 1
                /\ ShownLen(d) = DisplayMax + NoticeLen
           ELSE d = Shown(FALSE, 1, n) /\ ShownLen(d) = n

\* C18 witness: a log text one character too long was shown truncated
C18_Witness ==
    /\ ShowedLogs(fin) /\ LastCall(fin).len = DisplayMax + 1
    /\ fin.loc.shown.notice /\ fin.loc.shown.first = 2

\* an on_cb handler that fetched a service, or the services, with success
FetchedResource(r) ==
    /\ r.h = "on_cb" /\ r.ev.op \in {"svc", "svc_status", "list_apps"}
    /\ r.calls # <<>> /\ request_ok(LastCall(r).res)

\* C19 as stated: whatever the shape of a successfully fetched payload, also
\* one that is no mapping, the handler extracts the fields without raising
\* and completes with a message
C19_Original ==
    \A r \in Handlers : FetchedResource(r) =>
        r.pc = "done" /\ r.replies # <<>>

\* the deliveries the known handlers have awaited
Deliveries == UNION {{r.sends[i] : i \in 1..Len(r.sends)} : r \in Handlers}

\* C20 as stated: a message is first attempted with rich formatting; if and
\* only if the transport rejects it for a formatting reason it is attempted
\* once more, with the formatting stripped; never more than two attempts,
\* and no exception out of the delivery
C20_Original ==
    \A d \in Deliveries :
        /\ Len(d.attempts) \in 1..2
        /\ d.attempts[1].parse_mode = "html"
        /\ Len(d.attempts) = 2 <=> d.first = "format_error"
        /\ Len(d.attempts) = 2 => d.attempts[2].parse_mode = "disabled"
        /\ ~d.raised

\* the entities html_escape writes
Entities == {<<"&", "a", "m", "p", ";">>, <<"&", "l", "t", ";">>, <<"&", "g", "t", ";">>}

\* a text holds markup: a "<", a ">", or a "&" that begins no entity
Markup(s) ==
    \E i \in 1..Len(s) :
        \/ s[i] \in {"<", ">"}
        \/ /\ s[i] = "&"
           /\ \A e \in Entities : i + Len(e) - 1 > Len(s) \/ SubSeq(s, i, i + Len(e) - 1) # e

\* C21 as stated: every dynamic text stands escaped in the message it was
\* interpolated into; no message holds markup that came with a remote
\* payload, an error descriptor, a resource id or a text of the user
C21_Original ==
    \A r \in Handlers : \A i \in 1..Len(r.texts) : \A j \in 1..Len(r.texts[i]) :
        ~Markup(r.texts[i][j])

\* the suspended handlers of user u, with their numbers
Awaiting(b, u) == [r \in {x \in BagToSet(b) : x.uid = u} |-> CopiesIn(r, b)]

ListApps == CbEv("list_apps", <<>>, "none", 0)

\* C22: the events of different users are independent.  Whatever the other
\* users' handlers are waiting for, the list-services event of a user with no
\* handler of their own suspended can be dispatched; a step of one user's
\* handler leaves the suspended handlers of every other user as they were
\* (only a restart of the process ends them); and a list-services handler
\* ends by the outcome of its own request
C22_UsersIndependent ==
    /\ [](\A u \in Users : Awaiting(inflight, u) = << >> => ENABLED OnCb(u, ListApps))
    /\ [][ProcessRestart \/ \E u \in Users : \A v \in Users \ {u} :
                               Awaiting(inflight', v) = Awaiting(inflight, v)]_vars
    /\ [](\A r \in Handlers :
             (r.h = "on_cb" /\ r.ev = ListApps /\ r.pc = "done" /\ r.key # "none") =>
                 r.replies = <<IF LastCall(r).res = "2xx" THEN "rendered" ELSE "fetch_failed">>)

\* C22 witness: u1's restart request has ended in a 5xx and the deploy
\* request issued in its place is still in flight; u2 has listed the
\* services meanwhile
C22_Witness ==
    /\ \E r \in BagToSet(inflight) :
          /\ IsRestart(r) /\ r.uid = "u1" /\ r.pc = "restart_deploy_wait"
          /\ r.calls[1].res = "5xx"
    /\ fin.h = "on_cb" /\ fin.uid = "u2" /\ fin.ev = ListApps
    /\ fin.pc = "done" /\ fin.replies = <<"rendered">>

\* this step is the return of the /login handler r
LoginReturns(r) ==
    /\ r.h = "cmd_login" /\ r.pc = "login_wait"
    /\ CopiesIn(r, inflight') = CopiesIn(r, inflight) - 1
    /\ fin'.h = "cmd_login" /\ fin'.uid = r.uid /\ fin'.key = r.key /\ fin'.pc = "done"

\* C23: a key is stored for a user only by the return of a /login of that
\* user whose owners request was answered with success, and it is the key of
\* that /login; a /login whose request failed leaves the credentials, in
\* memory and in the state file, as they were; no step removes a stored
\* credential, and what is in memory is what the state file holds, so a
\* restart of the process keeps it
C23_KeyStoredAfterValidation ==
    /\ [][\A u \in Users :
             /\ Has(api_keys, u) => Has(api_keys', u)
             /\ (Has(api_keys', u) /\ get_user_key(St, u) # api_keys'[u]) =>
                   \E r \in BagToSet(inflight) :
                       /\ LoginReturns(r) /\ r.uid = u /\ api_keys'[u] = r.key
                       /\ request_ok(fin'.calls[1].res)
                       /\ fin'.replies = <<"key_saved">>]_vars
    /\ [][\A r \in BagToSet(inflight) :
             (LoginReturns(r) /\ ~request_ok(fin'.calls[1].res)) =>
                 /\ api_keys' = api_keys /\ disk' = disk
                 /\ fin'.replies = <<"invalid_key">>]_vars
    /\ [](disk.api_keys = api_keys)

\* C23 witness: u1, whose stored key is k1, has tried to log in with k2,
\* the validation failed and k1 is still the stored key
C23_Witness ==
    /\ fin.h = "cmd_login" /\ fin.uid = "u1" /\ fin.key = "k2"
    /\ fin.pc = "done" /\ fin.calls[1].res = "4xx" /\ fin.replies = <<"invalid_key">>
    /\ Has(api_keys, "u1") /\ api_keys["u1"] = "k1"
    /\ disk.api_keys = api_keys

\* this step is the return of a set-repository operation (the flow or
\* /setrepo) from its update request
SetRepoReturns ==
    \E r \in BagToSet(inflight) :
        /\ r.pc = "update_wait"
        /\ CopiesIn(r, inflight') = CopiesIn(r, inflight) - 1
        /\ fin'.pc = "done" /\ fin'.uid = r.uid /\ fin'.ev = r.ev /\ fin'.h = r.h
        /\ Len(fin'.calls) = Len(r.calls)

\* C24 as stated: a set-repository operation writes the mapping of its
\* service exactly when its update request succeeds, and the mapping holds
\* the repository, the branch and the start command that the request
\* carried; a failed request and every other step but the return of a
\* /create leave the mappings as they were, and no step deletes one
C24_Original ==
    [][/\ SetRepoReturns =>
             IF request_ok(LastCall(fin').res)
             THEN repos' = DictSet(repos, LastCall(fin').sid, LastCall(fin').body)
             ELSE repos' = repos
       /\ (~SetRepoReturns /\ ~CreateReturns) => repos' = repos
       /\ DOMAIN repos \subseteq DOMAIN repos']_vars

\* a reply to the set-repository flow whose repository part is empty
EmptyRepoReply(r) ==
    /\ r.h = "private_text_handler" /\ r.ev.op = "text" /\ r.popped.type = "set_repo"
    /\ Strip(Split(r.ev.body, "|")[1]) = <<>>

\* C26 as stated: a reply to the set-repository flow whose repository part
\* is empty is rejected: it issues no update request, and no mapping with an
\* empty repository is stored
C26_Original ==
    /\ \A r \in Handlers : EmptyRepoReply(r) => r.calls = <<>> /\ r.pc = "done"
    /\ \A sid \in DOMAIN repos : Truthy(repos[sid].repo)

\* user u's slot holds in the next state an entry that is not the entry it
\* holds now
EntryAppears(u) ==
    /\ Has(pending', u)
    /\ ~Has(pending, u) \/ pending[u] # pending'[u]

CreateEntryAppears(u) == EntryAppears(u) /\ pending'[u].type = "create"

\* C25 as stated: a create request is issued only by a /create that found a
\* selected type of the valid set pending and whose owner resolution gave an
\* id, and by no other; the /create takes the selection with it, and a
\* selection comes to be pending only by the tap of a type button, so one
\* selection stands for at most one create request
C25_Original ==
    /\ [](\A r \in Handlers : \A i \in 1..Len(r.calls) :
             r.calls[i].op = "create_service" =>
                 /\ r.h = "private_text_handler" /\ r.ev.op = "create" /\ i = 2
                 /\ r.popped.type = "create" /\ r.popped.service_type \in VALID_SERVICE_TYPES
                 /\ r.calls[1].op = "owners" /\ request_ok(r.calls[1].res)
                 /\ r.calls[i].body.ownerId # "none"
                 /\ r.calls[i].body.ownerId = resolve_owner_id(TRUE, r.calls[1].data))
    /\ [][\A r \in BagToSet(inflight') \cup {fin'} :
             (Dispatched(r) /\ r.h = "private_text_handler" /\ r.ev.op = "create") =>
                 r.popped = pending_of(St, r.uid) /\ ~Has(pending', r.uid)]_vars
    /\ [][\A u \in Users : CreateEntryAppears(u) =>
             \E t \in VALID_SERVICE_TYPES : OnCb(u, CbEv("create_type", <<>>, t, 0))]_vars

\* the taps that begin a flow
FlowTaps ==
    {CbEv("create_type", <<>>, t, 0) : t \in VALID_SERVICE_TYPES}
    \cup Btn({"svc_repo_set", "env_add", "env_del"}, Sids)

\* C27 as stated: a flow is taken by one text at most; once a text has taken
\* a user's pending entry, the user has an entry pending again only by
\* tapping a flow button again, and by no other step, a restart of the
\* process that loads the state file included
C27_Original ==
    [][\A u \in Users : EntryAppears(u) => \E ev \in FlowTaps : OnCb(u, ev)]_vars

\* a set-repository operation on service sid is under way
UpdateUnderWay(b, sid) ==
    \E h \in BagToSet(b) : h.pc \in {"update_reply", "update_wait"} /\ h.loc.sid = sid

\* C28 as stated: when a set-repository operation returns with success and
\* no other one on the same service is under way, the mapping stored for the
\* service is the update the remote service applied last, whatever the order
\* in which the responses of concurrent operations arrived
C28_Original ==
    [][(/\ SetRepoReturns /\ request_ok(LastCall(fin').res)
        /\ ~UpdateUnderWay(inflight', LastCall(fin').sid)) =>
           LET sid == LastCall(fin').sid
           IN /\ Has(repos', sid) /\ Has(applied', sid)
              /\ repos'[sid] = applied'[sid]]_vars

\* an on_cb handler that returned after showing page p >= 1 of the logs
ShowedPage(r) == ShowedLogs(r) /\ r.h = "on_cb" /\ r.ev.page >= 1

\* the lines at the positions first..last from the end of a log of n lines
\* (first <= last), as positions from its start, in order
FromEnd(n, first, last) ==
    IF n < first THEN NoLines ELSE Lines(Max(1, n - last + 1), n - first + 1)

\* C29 as stated: page p >= 1 of a log of n returned lines shows exactly the
\* lines at the positions PageLimit*(p-1)+1 .. PageLimit*p from the end, in
\* order, and shows "(no logs for this page)" when fewer than
\* PageLimit*(p-1)+1 lines exist, so that no line is on two pages
C29_Original ==
    \A r \in Handlers : ShowedPage(r) =>
        LET n == LastCall(r).count
            p == r.ev.page
        IN /\ r.loc.lines = FromEnd(n, PageLimit * (p - 1) + 1, PageLimit * p)
           /\ n < PageLimit * (p - 1) + 1 => r.loc.shown = Shown(FALSE, 1, NoLogsLen)

\* C30 as stated: no message sent to a user holds the stored credential of a
\* different user
C30_Original ==
    \A r \in Handlers : \A v \in DOMAIN r.dump : v = r.uid
====
